---------------------------- MODULE Spec2Model ----------------------------
(***************************************************************************)
(* Model of scripts/print_memory_stream.py: the pipeline of main           *)
(*   parse_args -> _import_client -> _create_client -> _call_get_system    *)
(*   -> _extract_memory_stream -> _decode_memory_stream -> print           *)
(* Text is a sequence of Unicode code points, bytes a sequence of 0..255.  *)
(***************************************************************************)
EXTENDS Integers, Sequences, FiniteSets, TLC

(***************************************************************************)
(* Bounds of the model.                                                    *)
(***************************************************************************)
MaxStrLen == 4
MaxBytesLen == 2
MaxJsonItems == 1

(***************************************************************************)
(* Generic helpers.                                                        *)
(***************************************************************************)
SeqsUpTo(S, n) == UNION {[1..k -> S] : k \in 0..n}

Range(s) == {s[i] : i \in DOMAIN s}

RECURSIVE Concat(_)
Concat(ss) == IF ss = <<>> THEN <<>> ELSE Head(ss) \o Concat(Tail(ss))

\* The code point U+FFFD written by errors="replace".
REPLACEMENT == 65533

(***************************************************************************)
(* str.encode(encoding, errors="strict") and bytes.decode(encoding).       *)
(* An encoding name outside KnownEncodings makes the codec lookup raise    *)
(* LookupError.  A result is [ok, v, exc].                                 *)
(***************************************************************************)
KnownEncodings == {"utf-8", "ascii", "latin-1"}

Encodings == KnownEncodings \cup {"bogus"}

Ok(v) == [ok |-> TRUE, v |-> v, exc |-> "none"]

Raise(exc) == [ok |-> FALSE, v |-> <<>>, exc |-> exc]

IsSurrogate(cp) == cp >= 55296 /\ cp <= 57343

Utf8EncodeChar(cp) ==
    IF cp < 128 THEN <<cp>>
    ELSE IF cp < 2048 THEN <<192 + (cp \div 64), 128 + (cp % 64)>>
    ELSE IF cp < 65536
         THEN <<224 + (cp \div 4096), 128 + ((cp \div 64) % 64), 128 + (cp % 64)>>
    ELSE <<240 + (cp \div 262144), 128 + ((cp \div 4096) % 64),
           128 + ((cp \div 64) % 64), 128 + (cp % 64)>>

CharEncodable(cp, encoding) ==
    CASE encoding = "utf-8" -> ~IsSurrogate(cp)
      [] encoding = "ascii" -> cp < 128
      [] encoding = "latin-1" -> cp < 256
      [] OTHER -> FALSE

StrEncode(s, encoding) ==
    IF encoding \notin KnownEncodings THEN Raise("LookupError")
    ELSE IF \E i \in DOMAIN s : ~CharEncodable(s[i], encoding)
         THEN Raise("UnicodeEncodeError")
    ELSE IF encoding = "utf-8"
         THEN Ok(Concat([i \in DOMAIN s |-> Utf8EncodeChar(s[i])]))
    ELSE Ok(s)

IsCont(b, i, lo, hi) == i <= Len(b) /\ b[i] >= lo /\ b[i] <= hi

\* Lower and upper limit of the second byte of a multi-byte UTF-8 sequence.
Utf8SecondLo(b0) == IF b0 = 224 THEN 160 ELSE IF b0 = 240 THEN 144 ELSE 128

Utf8SecondHi(b0) == IF b0 = 237 THEN 159 ELSE IF b0 = 244 THEN 143 ELSE 191

\* One step of the UTF-8 decoder at position i: [ok, n, cp], n the number of
\* bytes consumed (for an error: the maximal ill-formed prefix).
Utf8Step(b, i) ==
    LET b0 == b[i]
        second == IsCont(b, i + 1, Utf8SecondLo(b0), Utf8SecondHi(b0))
        third == IsCont(b, i + 2, 128, 191)
        fourth == IsCont(b, i + 3, 128, 191)
        Bad(n) == [ok |-> FALSE, n |-> n, cp |-> REPLACEMENT]
    IN  IF b0 < 128 THEN [ok |-> TRUE, n |-> 1, cp |-> b0]
        ELSE IF b0 < 194 \/ b0 > 244 THEN Bad(1)
        ELSE IF b0 < 224
             THEN IF second
                  THEN [ok |-> TRUE, n |-> 2,
                        cp |-> (b0 - 192) * 64 + (b[i + 1] - 128)]
                  ELSE Bad(1)
        ELSE IF b0 < 240
             THEN IF ~second THEN Bad(1)
                  ELSE IF ~third THEN Bad(2)
                  ELSE [ok |-> TRUE, n |-> 3,
                        cp |-> (b0 - 224) * 4096 + (b[i + 1] - 128) * 64
                               + (b[i + 2] - 128)]
        ELSE IF ~second THEN Bad(1)
             ELSE IF ~third THEN Bad(2)
             ELSE IF ~fourth THEN Bad(3)
             ELSE [ok |-> TRUE, n |-> 4,
                   cp |-> (b0 - 240) * 262144 + (b[i + 1] - 128) * 4096
                          + (b[i + 2] - 128) * 64 + (b[i + 3] - 128)]

RECURSIVE Utf8Valid(_, _)
Utf8Valid(b, i) ==
    IF i > Len(b) THEN TRUE
    ELSE LET st == Utf8Step(b, i) IN st.ok /\ Utf8Valid(b, i + st.n)

\* Decoding from position i where every ill-formed prefix becomes U+FFFD.
RECURSIVE Utf8Text(_, _)
Utf8Text(b, i) ==
    IF i > Len(b) THEN <<>>
    ELSE LET st == Utf8Step(b, i) IN <<st.cp>> \o Utf8Text(b, i + st.n)

\* raw_bytes.decode("utf-8", errors="replace")
Utf8DecodeReplace(b) == Utf8Text(b, 1)

\* raw_bytes.decode(encoding): empty input returns "" before the codec is
\* looked up.
BytesDecode(b, encoding) ==
    IF b = <<>> THEN Ok(<<>>)
    ELSE IF encoding \notin KnownEncodings THEN Raise("LookupError")
    ELSE IF encoding = "utf-8"
         THEN IF Utf8Valid(b, 1) THEN Ok(Utf8Text(b, 1))
              ELSE Raise("UnicodeDecodeError")
    ELSE IF encoding = "ascii"
         THEN IF \A i \in DOMAIN b : b[i] < 128 THEN Ok(b)
              ELSE Raise("UnicodeDecodeError")
    ELSE Ok(b)

(***************************************************************************)
(* base64.b64decode(s, validate=True): the strict scan of binascii.        *)
(***************************************************************************)
PAD == 61

\* The 6-bit value of a character of the standard alphabet, 64 otherwise.
B64Value(c) ==
    IF c >= 65 /\ c <= 90 THEN c - 65
    ELSE IF c >= 97 /\ c <= 122 THEN c - 97 + 26
    ELSE IF c >= 48 /\ c <= 57 THEN c - 48 + 52
    ELSE IF c = 43 THEN 62
    ELSE IF c = 47 THEN 63
    ELSE 64

\* The scan from position i; quad is the position in the current quad, left
\* the bits left over, pads the pad characters seen in this quad, started
\* whether a pad character was seen.
RECURSIVE B64Scan(_, _, _, _, _, _, _)
B64Scan(s, i, quad, left, pads, started, out) ==
    IF i > Len(s)
    THEN IF quad # 0 THEN Raise("binascii.Error") ELSE Ok(out)
    ELSE IF s[i] = PAD
    THEN IF quad >= 2 /\ quad + pads + 1 >= 4
         THEN IF i < Len(s) THEN Raise("binascii.Error") ELSE Ok(out)
         ELSE B64Scan(s, i + 1, quad, left,
                      IF quad >= 2 THEN pads + 1 ELSE pads, TRUE, out)
    ELSE LET v == B64Value(s[i]) IN
         IF v >= 64 \/ started THEN Raise("binascii.Error")
         ELSE CASE quad = 0 -> B64Scan(s, i + 1, 1, v, 0, started, out)
                [] quad = 1 -> B64Scan(s, i + 1, 2, v % 16, 0, started,
                                       Append(out, left * 4 + (v \div 16)))
                [] quad = 2 -> B64Scan(s, i + 1, 3, v % 4, 0, started,
                                       Append(out, left * 16 + (v \div 4)))
                [] OTHER -> B64Scan(s, i + 1, 0, 0, 0, started,
                                    Append(out, left * 64 + v))

B64Decode(s) ==
    IF \E i \in DOMAIN s : s[i] >= 128 THEN Raise("ValueError")
    ELSE IF s # <<>> /\ s[1] = PAD THEN Raise("binascii.Error")
    ELSE B64Scan(s, 1, 0, 0, 0, FALSE, <<>>)

(***************************************************************************)
(* json.dumps(value, ensure_ascii=False).  A JSON value is a record         *)
(* [k, n, s, items]: k the kind, n the number (or truth value), s the text *)
(* of a string, items the members [key, val] of a list or dict.            *)
(***************************************************************************)
JNull == [k |-> "null", n |-> 0, s |-> <<>>, items |-> <<>>]

JBool(b) == [k |-> "bool", n |-> IF b THEN 1 ELSE 0, s |-> <<>>, items |-> <<>>]

JInt(n) == [k |-> "int", n |-> n, s |-> <<>>, items |-> <<>>]

JStr(s) == [k |-> "str", n |-> 0, s |-> s, items |-> <<>>]

JList(vals) ==
    [k |-> "list", n |-> 0, s |-> <<>>,
     items |-> [i \in DOMAIN vals |-> [key |-> <<>>, val |-> vals[i]]]]

JDict(items) == [k |-> "dict", n |-> 0, s |-> <<>>, items |-> items]

RECURSIVE NatText(_)
NatText(n) ==
    IF n < 10 THEN <<48 + n>> ELSE NatText(n \div 10) \o <<48 + (n % 10)>>

IntText(n) == IF n < 0 THEN <<45>> \o NatText(0 - n) ELSE NatText(n)

HexDigit(d) == IF d < 10 THEN 48 + d ELSE 97 + d - 10

\* The escape of one character inside a JSON string; non-ASCII is kept.
JsonEscapeChar(c) ==
    CASE c = 34 -> <<92, 34>>
      [] c = 92 -> <<92, 92>>
      [] c = 8 -> <<92, 98>>
      [] c = 12 -> <<92, 102>>
      [] c = 10 -> <<92, 110>>
      [] c = 13 -> <<92, 114>>
      [] c = 9 -> <<92, 116>>
      [] OTHER -> IF c < 32
                  THEN <<92, 117, 48, 48, HexDigit(c \div 16), HexDigit(c % 16)>>
                  ELSE <<c>>

JsonString(s) ==
    <<34>> \o Concat([i \in DOMAIN s |-> JsonEscapeChar(s[i])]) \o <<34>>

\* ", ".join(parts)
RECURSIVE JoinComma(_)
JoinComma(parts) ==
    IF parts = <<>> THEN <<>>
    ELSE IF Len(parts) = 1 THEN parts[1]
    ELSE parts[1] \o <<44, 32>> \o JoinComma(Tail(parts))

RECURSIVE JsonDumps(_)
JsonDumps(j) ==
    CASE j.k = "null" -> <<110, 117, 108, 108>>
      [] j.k = "bool" -> IF j.n = 1 THEN <<116, 114, 117, 101>>
                         ELSE <<102, 97, 108, 115, 101>>
      [] j.k = "int" -> IntText(j.n)
      [] j.k = "str" -> JsonString(j.s)
      [] j.k = "list" ->
            <<91>> \o JoinComma([i \in DOMAIN j.items |-> JsonDumps(j.items[i].val)])
                   \o <<93>>
      [] OTHER ->
            <<123>> \o JoinComma([i \in DOMAIN j.items |->
                                    JsonString(j.items[i].key) \o <<58, 32>>
                                    \o JsonDumps(j.items[i].val)])
                    \o <<125>>

(***************************************************************************)
(* A memory stream value is [t, v, j]: t its Python type ("bytes",         *)
(* "bytearray", "str", "json" for None/bool/int/list/dict, "object" for a  *)
(* value json cannot serialise), v its bytes or characters, j its JSON     *)
(* value.                                                                  *)
(***************************************************************************)
MsBytes(b) == [t |-> "bytes", v |-> b, j |-> JNull]

MsByteArray(b) == [t |-> "bytearray", v |-> b, j |-> JNull]

MsStr(s) == [t |-> "str", v |-> s, j |-> JNull]

MsJson(j) == [t |-> "json", v |-> <<>>, j |-> j]

MsNone == MsJson(JNull)

MsObject == [t |-> "object", v |-> <<>>, j |-> JNull]

\* The result of _decode_memory_stream: the text returned or the exception
\* raised, and whether the UTF-8 fallback produced the text.
Returned(text, fallback) ==
    [ok |-> TRUE, v |-> text, exc |-> "none", fallback |-> fallback]

Raised(exc) == [ok |-> FALSE, v |-> <<>>, exc |-> exc, fallback |-> FALSE]

\* RawBytes without the base64 attempt: every string is taken as text.
RawBytesTextOnly(memory_stream, encoding) ==
    IF memory_stream.t \in {"bytes", "bytearray"} THEN Ok(memory_stream.v)
    ELSE IF memory_stream.t = "str" THEN StrEncode(memory_stream.v, encoding)
    ELSE IF memory_stream.t = "object" THEN Raise("TypeError")
    ELSE StrEncode(JsonDumps(memory_stream.j), encoding)

\* Lines 114-124: the raw bytes of the memory stream.
RawBytes(memory_stream, encoding) ==
    IF memory_stream.t \in {"bytes", "bytearray"} THEN Ok(memory_stream.v)
    ELSE IF memory_stream.t = "str"
         THEN LET d == B64Decode(memory_stream.v)
              IN  IF d.ok THEN d ELSE StrEncode(memory_stream.v, encoding)
    ELSE IF memory_stream.t = "object" THEN Raise("TypeError")
    ELSE StrEncode(JsonDumps(memory_stream.j), encoding)

\* _decode_memory_stream without the except clause of lines 128-130.
DecodeNoFallback(memory_stream, encoding) ==
    LET raw == RawBytes(memory_stream, encoding)
    IN  IF ~raw.ok THEN Raised(raw.exc)
        ELSE LET d == BytesDecode(raw.v, encoding)
             IN  IF d.ok THEN Returned(d.v, FALSE) ELSE Raised(d.exc)

_decode_memory_stream(memory_stream, encoding) ==
    LET raw == RawBytes(memory_stream, encoding)
    IN  IF ~raw.ok THEN Raised(raw.exc)
        ELSE LET d == BytesDecode(raw.v, encoding)
             IN  IF d.ok THEN Returned(d.v, FALSE)
                 ELSE IF d.exc = "UnicodeDecodeError"
                      THEN Returned(Utf8DecodeReplace(raw.v), TRUE)
                 ELSE Raised(d.exc)

(***************************************************************************)
(* Command line (parse_args).  An optional string is [set, s]; None is not *)
(* set.  A value is truthy when it is set and not empty.                   *)
(***************************************************************************)
None == [set |-> FALSE, s |-> ""]

Some(s) == [set |-> TRUE, s |-> s]

Truthy(a) == a.set /\ a.s # ""

DefaultEncoding == "utf-8"

parse_args(base_url, api_key, encoding) ==
    [base_url |-> base_url, api_key |-> api_key, encoding |-> encoding]

(***************************************************************************)
(* The galactic_console_client module: which of the names the script       *)
(* looks up it exposes.                                                    *)
(***************************************************************************)
ApiNames == <<"SystemApi", "SystemsApi", "DefaultApi">>

Module(gcc, conf, apic, apis) ==
    [GalacticConsoleClient |-> gcc, Configuration |-> conf, ApiClient |-> apic,
     apis |-> apis]

NoModule == Module(FALSE, FALSE, FALSE, {})

AllModules ==
    {Module(g, c, a, s) : g \in BOOLEAN, c \in BOOLEAN, a \in BOOLEAN,
                          s \in SUBSET Range(ApiNames)}

\* The outcome of "import galactic_console_client".
_import_client(outcome) ==
    IF outcome.exc = "ImportError"
    THEN [ok |-> FALSE, exc |-> "SystemExit", module |-> NoModule]
    ELSE IF outcome.exc # "none"
    THEN [ok |-> FALSE, exc |-> outcome.exc, module |-> NoModule]
    ELSE [ok |-> TRUE, exc |-> "none", module |-> outcome.module]

(***************************************************************************)
(* Clients.  The shape of a client is, for the client itself and for its   *)
(* attributes system, systems and console (objects 1..4), whether the      *)
(* object is there and what its getSystem and get_system attributes are.   *)
(***************************************************************************)
NestedNames == <<"system", "systems", "console">>

MethodNames == <<"getSystem", "get_system">>

AttrKinds == {"absent", "noncallable", "callable"}

Obj(present, m1, m2) == [present |-> present, getSystem |-> m1, get_system |-> m2]

\* An attribute that is missing ("absent") or None ("none") has no methods.
NoObj(present) == Obj(present, "absent", "absent")

Objects == {Obj("object", a, b) : a \in AttrKinds, b \in AttrKinds}

NestedObjects == Objects \cup {NoObj("absent"), NoObj("none")}

AllShapes ==
    {<<o1, o2, o3, o4>> : o1 \in Objects, o2 \in NestedObjects,
                          o3 \in NestedObjects, o4 \in NestedObjects}

\* A Configuration instance: host, and the api_key attribute (a dict of
\* which only the entry "api_key" is modelled) when there is one.
Configuration(has_api_key, preset) ==
    [host |-> "default-host", has_api_key |-> has_api_key, api_key |-> preset]

NoConfiguration == Configuration(FALSE, None)

Configurations ==
    {NoConfiguration, Configuration(TRUE, None), Configuration(TRUE, Some("preset"))}

NoKwargs == [base_url |-> None, api_key |-> None]

Client(kind, kwargs, configuration, shape) ==
    [kind |-> kind, kwargs |-> kwargs, configuration |-> configuration,
     shape |-> shape]

EmptyShape == <<Obj("object", "absent", "absent"), NoObj("absent"),
                NoObj("absent"), NoObj("absent")>>

NoClient == Client("unset", NoKwargs, NoConfiguration, EmptyShape)

\* Lines 60-63: the first API class the module exposes, "" when none.
RECURSIVE FirstApi(_, _)
FirstApi(client_module, i) ==
    IF i > Len(ApiNames) THEN ""
    ELSE IF ApiNames[i] \in client_module.apis THEN ApiNames[i]
    ELSE FirstApi(client_module, i + 1)

Created(client) == [ok |-> TRUE, exc |-> "none", client |-> client]

CtorRaised == [ok |-> FALSE, exc |-> "TypeError", client |-> NoClient]

\* lib is what the library does: lib.raises names the constructor that
\* raises (if any), lib.configuration is a fresh Configuration(), lib.shape
\* the shape of the object built.
_create_client(client_module, base_url, api_key, lib) ==
    IF client_module.GalacticConsoleClient
    THEN LET kwargs == [base_url |-> IF Truthy(base_url) THEN base_url ELSE None,
                        api_key |-> IF Truthy(api_key) THEN api_key ELSE None]
         IN  IF lib.raises = "GalacticConsoleClient" THEN CtorRaised
             ELSE Created(Client("GalacticConsoleClient", kwargs,
                                 NoConfiguration, lib.shape))
    ELSE IF client_module.Configuration /\ client_module.ApiClient
    THEN LET c0 == lib.configuration
             c1 == IF Truthy(base_url) THEN [c0 EXCEPT !.host = base_url.s]
                   ELSE c0
             c2 == IF Truthy(api_key)
                   THEN [c1 EXCEPT !.has_api_key = TRUE, !.api_key = api_key]
                   ELSE c1
             api == FirstApi(client_module, 1)
         IN  IF lib.raises = "Configuration" THEN CtorRaised
             ELSE IF lib.raises = "ApiClient" THEN CtorRaised
             ELSE IF api # ""
                  THEN IF lib.raises = "api" THEN CtorRaised
                       ELSE Created(Client(api, NoKwargs, c2, lib.shape))
             ELSE Created(Client("ApiClient", NoKwargs, c2, lib.shape))
    ELSE Created(Client("module", NoKwargs, NoConfiguration, lib.shape))

(***************************************************************************)
(* _call_get_system: the search for the method to call.                    *)
(***************************************************************************)
\* Lines 75-80: the client, then its nested attributes that are not None.
candidate_objects(client) ==
    SelectSeq(<<1, 2, 3, 4>>,
              LAMBDA i : i = 1 \/ client.shape[i].present = "object")

MethodAttr(client, obj, name) ==
    IF name = "getSystem" THEN client.shape[obj].getSystem
    ELSE client.shape[obj].get_system

NotFound == [found |-> FALSE, obj |-> 0, name |-> ""]

\* Lines 82-86: the loops over candidate objects (from the i-th) and names
\* (from the n-th); the first callable attribute is the method called.
RECURSIVE FindMethod(_, _, _, _)
FindMethod(client, cands, i, n) ==
    IF i > Len(cands) THEN NotFound
    ELSE IF n > Len(MethodNames) THEN FindMethod(client, cands, i + 1, 1)
    ELSE IF MethodAttr(client, cands[i], MethodNames[n]) = "callable"
         THEN [found |-> TRUE, obj |-> cands[i], name |-> MethodNames[n]]
    ELSE FindMethod(client, cands, i, n + 1)

\* The search without the callable() test of line 85: any attribute of the
\* name is taken.
RECURSIVE FindAttr(_, _, _, _)
FindAttr(client, cands, i, n) ==
    IF i > Len(cands) THEN NotFound
    ELSE IF n > Len(MethodNames) THEN FindAttr(client, cands, i + 1, 1)
    ELSE IF MethodAttr(client, cands[i], MethodNames[n]) # "absent"
         THEN [found |-> TRUE, obj |-> cands[i], name |-> MethodNames[n]]
    ELSE FindAttr(client, cands, i, n + 1)

CallAnyAttr(client) == FindAttr(client, candidate_objects(client), 1, 1)

_call_get_system(client) == FindMethod(client, candidate_objects(client), 1, 1)

(***************************************************************************)
(* Payloads.  kind is "None", "object", "dict" or "mapping" (a mapping     *)
(* that is no dict instance); attrs and keys give per name whether it is   *)
(* there and its value.                                                    *)
(***************************************************************************)
AttrNames == <<"memory_stream", "memoryStream", "memory">>

KeyNames == <<"memory_stream", "memoryStream", "memory", "memory_streams">>

Absent == [present |-> FALSE, value |-> MsNone]

Present(value) == [present |-> TRUE, value |-> value]

NoSlots == [n \in Range(KeyNames) |-> Absent]

\* source is the method that returned the payload, <<object, name>>.
NoSource == <<0, "">>

Payload(kind, attrs, keys) ==
    [kind |-> kind, attrs |-> attrs, keys |-> keys, source |-> NoSource]

PayloadNone == Payload("None", NoSlots, NoSlots)

RECURSIVE FirstPresent(_, _, _)
FirstPresent(slots, names, i) ==
    IF i > Len(names) THEN 0
    ELSE IF slots[names[i]].present THEN i
    ELSE FirstPresent(slots, names, i + 1)

Extracted(value) == [ok |-> TRUE, value |-> value, message |-> ""]

ExtractFailed(message) == [ok |-> FALSE, value |-> MsNone, message |-> message]

MsgNoData == "The getSystem call returned no data."

MsgNoStream == "The system payload does not contain a memory stream."

MsgNoCall == "Unable to locate a 'getSystem' call on the client."

MsgNoPackage == "The 'galactic_console_client' package is required."

\* _extract_memory_stream returning None where line 108 raises.
ExtractOrNone(system_payload) ==
    LET a == FirstPresent(system_payload.attrs, AttrNames, 1)
        k == FirstPresent(system_payload.keys, KeyNames, 1)
    IN  IF system_payload.kind = "None" THEN ExtractFailed(MsgNoData)
        ELSE IF a # 0 THEN Extracted(system_payload.attrs[AttrNames[a]].value)
        ELSE IF system_payload.kind = "dict" /\ k # 0
             THEN Extracted(system_payload.keys[KeyNames[k]].value)
        ELSE Extracted(MsNone)

\* _extract_memory_stream with the mapping lookup before the attributes.
ExtractKeysFirst(system_payload) ==
    LET a == FirstPresent(system_payload.attrs, AttrNames, 1)
        k == FirstPresent(system_payload.keys, KeyNames, 1)
    IN  IF system_payload.kind = "None" THEN ExtractFailed(MsgNoData)
        ELSE IF system_payload.kind = "dict" /\ k # 0
             THEN Extracted(system_payload.keys[KeyNames[k]].value)
        ELSE IF a # 0 THEN Extracted(system_payload.attrs[AttrNames[a]].value)
        ELSE ExtractFailed(MsgNoStream)

_extract_memory_stream(system_payload) ==
    LET a == FirstPresent(system_payload.attrs, AttrNames, 1)
        k == FirstPresent(system_payload.keys, KeyNames, 1)
    IN  IF system_payload.kind = "None" THEN ExtractFailed(MsgNoData)
        ELSE IF a # 0 THEN Extracted(system_payload.attrs[AttrNames[a]].value)
        ELSE IF system_payload.kind = "dict" /\ k # 0
             THEN Extracted(system_payload.keys[KeyNames[k]].value)
        ELSE ExtractFailed(MsgNoStream)

(***************************************************************************)
(* The inputs the environment supplies to a run of main.                   *)
(***************************************************************************)
ArgSamples ==
    {parse_args(b, k, e) : b \in {None, Some("http://h")},
                           k \in {None, Some("key")}, e \in Encodings}

ModuleSamples ==
    {Module(TRUE, FALSE, FALSE, {}),
     Module(FALSE, TRUE, TRUE, {"SystemsApi", "DefaultApi"}),
     Module(FALSE, TRUE, TRUE, {}),
     Module(FALSE, TRUE, FALSE, {"SystemApi"}),
     NoModule}

ImportOutcomes ==
    {[exc |-> "ImportError", module |-> NoModule]}
    \cup {[exc |-> "none", module |-> m] : m \in ModuleSamples}

ShapeSamples ==
    {<<Obj("object", "callable", "absent"), NoObj("absent"), NoObj("absent"),
       NoObj("absent")>>,
     <<Obj("object", "noncallable", "callable"), Obj("object", "callable", "absent"),
       NoObj("none"), NoObj("absent")>>,
     <<Obj("object", "absent", "absent"), NoObj("none"), NoObj("absent"),
       Obj("object", "absent", "callable")>>,
     <<Obj("object", "noncallable", "absent"), Obj("object", "absent", "noncallable"),
       NoObj("absent"), NoObj("absent")>>}

LibSamples ==
    [raises : {"none", "GalacticConsoleClient", "Configuration", "ApiClient", "api"},
     configuration : Configurations, shape : ShapeSamples]

MemorySamples ==
    {MsBytes(<<65>>), MsBytes(<<255>>), MsByteArray(<<195, 169>>), MsBytes(<<>>),
     MsStr(<<81, 81, 61, 61>>), MsStr(<<47, 119, 61, 61>>), MsStr(<<233>>),
     MsStr(<<81>>), MsNone, MsJson(JList(<<JStr(<<233>>)>>)),
     MsJson(JDict(<<[key |-> <<107>>, val |-> JInt(7)]>>)), MsObject}

WithAttr(name, value) == [NoSlots EXCEPT ![name] = Present(value)]

PayloadSamples ==
    {Payload("object", WithAttr("memory_stream", m), NoSlots) : m \in MemorySamples}
    \cup {PayloadNone,
          Payload("object", NoSlots, NoSlots),
          Payload("dict", NoSlots, NoSlots),
          Payload("dict", NoSlots, WithAttr("memory_streams", MsBytes(<<65>>))),
          Payload("mapping", NoSlots, WithAttr("memory_stream", MsBytes(<<65>>))),
          Payload("dict", WithAttr("memory", MsStr(<<81>>)),
                  WithAttr("memory_stream", MsBytes(<<65>>)))}

\* What the method called does: raise, or return a payload.
CallOutcomes ==
    {[exc |-> "ApiException", payload |-> PayloadNone]}
    \cup {[exc |-> "none", payload |-> p] : p \in PayloadSamples}

(***************************************************************************)
(* The state of a run of main.                                             *)
(***************************************************************************)
VARIABLES
    pc,             \* the stage main is about to run, "exited" at the end
    imported,       \* what the import statement did ("pending" before it)
    args,           \* the parsed command line
    client_module,  \* main's local variables
    client,
    system_payload,
    memory_stream,
    decoded,
    stdout,         \* the texts printed
    stderr,         \* what the interpreter wrote when the run ended
    exit_code,      \* -1 while the run goes on
    log,            \* the stages run so far
    calls,          \* the methods invoked on the client: <<object, name>>
    fallbacks       \* how often the UTF-8 fallback was taken

vars == <<pc, imported, args, client_module, client, system_payload, memory_stream, decoded,
          stdout, stderr, exit_code, log, calls, fallbacks>>

Stages == <<"import", "create", "call", "extract", "decode", "print">>

NoStderr == [kind |-> "none", exc |-> "none", text |-> ""]

NotDecoded == Raised("none")

\* The run ends with exception exc: SystemExit(message) prints the message,
\* any other exception a traceback; either way the exit code is 1.
Exits(exc, message) ==
    /\ pc' = "exited"
    /\ exit_code' = 1
    /\ stderr' = [kind |-> IF exc = "SystemExit" THEN "message" ELSE "traceback",
                  exc |-> exc,
                  text |-> IF exc = "SystemExit" THEN message ELSE exc]

Goes(stage) == pc' = stage /\ UNCHANGED <<exit_code, stderr>>

Init ==
    /\ pc = "import"
    /\ imported = "pending"
    /\ args \in ArgSamples
    /\ client_module = NoModule
    /\ client = NoClient
    /\ system_payload = PayloadNone
    /\ memory_stream = MsNone
    /\ decoded = NotDecoded
    /\ stdout = <<>>
    /\ stderr = NoStderr
    /\ exit_code = -1
    /\ log = <<>>
    /\ calls = <<>>
    /\ fallbacks = 0

\* main, line 159.
ImportStep ==
    /\ pc = "import"
    /\ log' = Append(log, "import")
    /\ \E outcome \in ImportOutcomes :
          LET r == _import_client(outcome)
          IN  /\ imported' = outcome.exc
              /\ IF r.ok THEN client_module' = r.module /\ Goes("create")
                 ELSE Exits(r.exc, MsgNoPackage) /\ UNCHANGED client_module
    /\ UNCHANGED <<args, client, system_payload, memory_stream, decoded, stdout,
                   calls, fallbacks>>

\* main, line 160.
CreateStep ==
    /\ pc = "create"
    /\ log' = Append(log, "create")
    /\ \E lib \in LibSamples :
          LET r == _create_client(client_module, args.base_url, args.api_key, lib)
          IN  IF r.ok THEN client' = r.client /\ Goes("call")
              ELSE Exits(r.exc, "") /\ UNCHANGED client
    /\ UNCHANGED <<imported, args, client_module, system_payload, memory_stream,
                   decoded, stdout, calls, fallbacks>>

\* CallStep calling the method a second time when it returned None.
CallStepRetry ==
    /\ pc = "call"
    /\ log' = Append(log, "call")
    /\ LET m == _call_get_system(client)
       IN  IF ~m.found
           THEN Exits("SystemExit", MsgNoCall) /\ UNCHANGED <<system_payload, calls>>
           ELSE \E outcome \in CallOutcomes :
                   /\ calls' = IF outcome.exc = "none" /\ outcome.payload.kind = "None"
                               THEN calls \o <<<<m.obj, m.name>>, <<m.obj, m.name>>>>
                               ELSE Append(calls, <<m.obj, m.name>>)
                   /\ IF outcome.exc = "none"
                      THEN /\ system_payload' =
                                 [outcome.payload EXCEPT !.source = <<m.obj, m.name>>]
                           /\ Goes("extract")
                      ELSE Exits(outcome.exc, "") /\ UNCHANGED system_payload
    /\ UNCHANGED <<imported, args, client_module, client, memory_stream, decoded,
                   stdout, fallbacks>>

\* main, line 161: the method found is invoked once; what it returns is the
\* payload, what it raises ends the run.
CallStep ==
    /\ pc = "call"
    /\ log' = Append(log, "call")
    /\ LET m == _call_get_system(client)
       IN  IF ~m.found
           THEN Exits("SystemExit", MsgNoCall) /\ UNCHANGED <<system_payload, calls>>
           ELSE /\ calls' = Append(calls, <<m.obj, m.name>>)
                /\ \E outcome \in CallOutcomes :
                      IF outcome.exc = "none"
                      THEN /\ system_payload' =
                                 [outcome.payload EXCEPT !.source = <<m.obj, m.name>>]
                           /\ Goes("extract")
                      ELSE Exits(outcome.exc, "") /\ UNCHANGED system_payload
    /\ UNCHANGED <<imported, args, client_module, client, memory_stream, decoded,
                   stdout, fallbacks>>

\* main, line 162.
ExtractStep ==
    /\ pc = "extract"
    /\ log' = Append(log, "extract")
    /\ LET r == _extract_memory_stream(system_payload)
       IN  IF r.ok THEN memory_stream' = r.value /\ Goes("decode")
           ELSE Exits("SystemExit", r.message) /\ UNCHANGED memory_stream
    /\ UNCHANGED <<imported, args, client_module, client, system_payload, decoded,
                   stdout, calls, fallbacks>>

\* DecodeStep going on to print after a decoding error.
DecodeStepSwallow ==
    /\ pc = "decode"
    /\ log' = Append(log, "decode")
    /\ LET r == _decode_memory_stream(memory_stream, args.encoding)
       IN  /\ decoded' = r
           /\ fallbacks' = IF r.fallback THEN fallbacks + 1 ELSE fallbacks
           /\ Goes("print")
    /\ UNCHANGED <<imported, args, client_module, client, system_payload,
                   memory_stream, stdout, calls>>

\* main, line 163.
DecodeStep ==
    /\ pc = "decode"
    /\ log' = Append(log, "decode")
    /\ LET r == _decode_memory_stream(memory_stream, args.encoding)
       IN  /\ decoded' = r
           /\ fallbacks' = IF r.fallback THEN fallbacks + 1 ELSE fallbacks
           /\ IF r.ok THEN Goes("print") ELSE Exits(r.exc, "")
    /\ UNCHANGED <<imported, args, client_module, client, system_payload,
                   memory_stream, stdout, calls>>

\* main, line 164.
PrintStep ==
    /\ pc = "print"
    /\ log' = Append(log, "print")
    /\ stdout' = Append(stdout, decoded.v)
    /\ Goes("return")
    /\ UNCHANGED <<imported, args, client_module, client, system_payload,
                   memory_stream, decoded, calls, fallbacks>>

\* main, line 165, and line 169: SystemExit(0).
ReturnStep ==
    /\ pc = "return"
    /\ pc' = "exited"
    /\ exit_code' = 0
    /\ UNCHANGED <<imported, args, client_module, client, system_payload,
                   memory_stream, decoded, stdout, stderr, log, calls, fallbacks>>

Next ==
    \/ ImportStep
    \/ CreateStep
    \/ CallStep
    \/ ExtractStep
    \/ DecodeStep
    \/ PrintStep
    \/ ReturnStep

Spec == Init /\ [][Next]_vars

(***************************************************************************)
(* Specifications of the single stages: each starts main at one stage,     *)
(* with that stage's input drawn from a bounded set of values.             *)
(***************************************************************************)
CharSamples == {81, 119, 54, 107, 61, 233}

ByteSamples == {65, 195, 169, 255}

StrValues == {MsStr(s) : s \in SeqsUpTo(CharSamples, MaxStrLen)}

BytesValues ==
    {MsBytes(b) : b \in SeqsUpTo(ByteSamples, MaxBytesLen)}
    \cup {MsByteArray(b) : b \in SeqsUpTo(ByteSamples, MaxBytesLen)}

JsonAtoms ==
    {JNull, JBool(TRUE), JBool(FALSE), JInt(0), JInt(-7), JInt(42),
     JStr(<<>>), JStr(<<65>>), JStr(<<233>>), JStr(<<34>>)}

\* The dict whose i-th key is "k<i>" and whose values are vals.
DictOf(vals) ==
    JDict([i \in DOMAIN vals |-> [key |-> <<107, 48 + i>>, val |-> vals[i]]])

JsonValues ==
    {JNull, JBool(TRUE), JBool(FALSE), JInt(0), JInt(-7), JInt(42)}
    \cup {JList(l) : l \in SeqsUpTo(JsonAtoms, MaxJsonItems)}
    \cup {DictOf(l) : l \in SeqsUpTo(JsonAtoms, MaxJsonItems)}

AllMemoryStreams ==
    StrValues \cup BytesValues \cup {MsJson(j) : j \in JsonValues} \cup {MsObject}

SlotValues == {MsNone, MsBytes(<<>>), MsBytes(<<65>>)}

Slots == {Absent} \cup {Present(v) : v \in SlotValues}

AttrSlots ==
    {[n \in Range(KeyNames) |-> IF n = "memory_stream" THEN a
                                ELSE IF n = "memoryStream" THEN b
                                ELSE IF n = "memory" THEN c ELSE Absent] :
        a \in Slots, b \in Slots, c \in Slots}

KeySlots == [Range(KeyNames) -> Slots]

AllPayloads ==
    {PayloadNone}
    \cup {Payload("object", a, NoSlots) : a \in AttrSlots}
    \cup {Payload(kind, a, k) : kind \in {"dict", "mapping"}, a \in AttrSlots,
                                k \in KeySlots}

CreateArgs ==
    {parse_args(b, k, DefaultEncoding) :
        b \in {None, Some(""), Some("http://h")},
        k \in {None, Some(""), Some("key")}}

SomeModule == Module(TRUE, FALSE, FALSE, {})

SomeShape ==
    <<Obj("object", "callable", "absent"), NoObj("absent"), NoObj("absent"),
      NoObj("absent")>>

SomeClient(shape) ==
    Client("GalacticConsoleClient", NoKwargs, NoConfiguration, shape)

SomeSource == <<1, "getSystem">>

ReturnedBy(source, payload) == [payload EXCEPT !.source = source]

\* main is about to run the n-th stage: the stages before it have run.
AtStage(n, a, module, cl, payload, ms) ==
    /\ pc = Stages[n]
    /\ imported = IF n > 1 THEN "none" ELSE "pending"
    /\ args = a
    /\ client_module = module
    /\ client = cl
    /\ system_payload = payload
    /\ memory_stream = ms
    /\ decoded = NotDecoded
    /\ stdout = <<>>
    /\ stderr = NoStderr
    /\ exit_code = -1
    /\ log = SubSeq(Stages, 1, n - 1)
    /\ calls = IF n > 3 THEN <<SomeSource>> ELSE <<>>
    /\ fallbacks = 0

InitCreate ==
    \E a \in CreateArgs, m \in AllModules :
        AtStage(2, a, m, NoClient, PayloadNone, MsNone)

NextCreate ==
    \/ CreateStep
    \/ CallStep

SpecCreate == InitCreate /\ [][NextCreate]_vars

InitCall ==
    \E s \in AllShapes :
        AtStage(3, parse_args(None, None, DefaultEncoding), SomeModule,
                SomeClient(s), PayloadNone, MsNone)

NextCall == CallStep

SpecCall == InitCall /\ [][NextCall]_vars

InitExtract ==
    \E p \in AllPayloads :
        AtStage(4, parse_args(None, None, DefaultEncoding), SomeModule,
                SomeClient(SomeShape), ReturnedBy(SomeSource, p), MsNone)

NextExtract == ExtractStep

SpecExtract == InitExtract /\ [][NextExtract]_vars

InitDecode ==
    \E m \in AllMemoryStreams, e \in Encodings :
        AtStage(5, parse_args(None, None, e), SomeModule, SomeClient(SomeShape),
                ReturnedBy(SomeSource,
                           Payload("object", WithAttr("memory_stream", m), NoSlots)),
                m)

NextDecode ==
    \/ DecodeStep
    \/ PrintStep
    \/ ReturnStep

SpecDecode == InitDecode /\ [][NextDecode]_vars

(***************************************************************************)
(* Properties.                                                             *)
(***************************************************************************)
HasRun(stage) == stage \in Range(log)

Candidate(i) == i = 1 \/ client.shape[i].present = "object"

CallableAt(i, n) ==
    Candidate(i) /\ MethodAttr(client, i, MethodNames[n]) = "callable"

NoCallable == \A i \in 1..4, n \in 1..2 : ~CallableAt(i, n)

NoAttr == \A n \in Range(AttrNames) : ~system_payload.attrs[n].present

NoKey == \A n \in Range(KeyNames) : ~system_payload.keys[n].present

NoMemoryStream ==
    \/ system_payload.kind = "None"
    \/ NoAttr /\ ~(system_payload.kind = "dict" /\ ~NoKey)

C2_FailuresAreSystemExit ==
    (pc = "exited" /\ exit_code # 0) =>
        (stderr.kind = "message" /\ stderr.exc = "SystemExit")

Before(i, n, j, m) == i < j \/ (i = j /\ n < m)

\* C3: when a callable getSystem or get_system exists on the client or on
\* its nested system, systems or console object, the method invoked is the
\* first callable one in the order of objects and, per object, getSystem
\* before get_system; what it returns is the payload, what it raises
\* propagates; non-callable attributes are skipped.
C3_FirstCallable ==
    HasRun("call") =>
        \A i \in 1..4, n \in 1..2 :
            ( /\ CallableAt(i, n)
              /\ \A j \in 1..4, m \in 1..2 : Before(j, m, i, n) => ~CallableAt(j, m) )
            => /\ calls = << <<i, MethodNames[n]>> >>
               /\ pc = "extract" => system_payload.source = <<i, MethodNames[n]>>
               /\ pc = "exited" => stderr.exc = "ApiException"

C3_Witness ==
    /\ pc = "extract"
    /\ client.shape[1] = Obj("object", "noncallable", "absent")
    /\ client.shape[2].present = "none"
    /\ client.shape[3] = Obj("object", "noncallable", "callable")
    /\ client.shape[4] = Obj("object", "callable", "callable")
    /\ calls = << <<3, "get_system">> >>
    /\ system_payload.source = <<3, "get_system">>

\* C4: for a payload that is not None, the value extracted is that of the
\* first attribute present among memory_stream, memoryStream, memory; with
\* no such attribute and a dict payload, that of the first key present among
\* memory_stream, memoryStream, memory, memory_streams; the value is handed
\* on as it is; the run exits with the error exactly when there is no such
\* attribute and no such key of a dict.
C4_FirstNamePresent ==
    (HasRun("extract") /\ system_payload.kind # "None") =>
        /\ \A i \in 1..3 :
              ( /\ system_payload.attrs[AttrNames[i]].present
                /\ \A j \in 1..(i - 1) : ~system_payload.attrs[AttrNames[j]].present )
              => ( /\ pc = "decode"
                   /\ memory_stream = system_payload.attrs[AttrNames[i]].value )
        /\ \A i \in 1..4 :
              ( /\ NoAttr
                /\ system_payload.kind = "dict"
                /\ system_payload.keys[KeyNames[i]].present
                /\ \A j \in 1..(i - 1) : ~system_payload.keys[KeyNames[j]].present )
              => ( /\ pc = "decode"
                   /\ memory_stream = system_payload.keys[KeyNames[i]].value )
        /\ (pc = "exited") <=> NoMemoryStream
        /\ pc = "exited" => (stderr.kind = "message" /\ stderr.text = MsgNoStream)

C4_Witness ==
    /\ pc = "decode"
    /\ system_payload.kind = "dict"
    /\ ~system_payload.attrs["memory_stream"].present
    /\ system_payload.attrs["memoryStream"] = Present(MsNone)
    /\ system_payload.attrs["memory"] = Present(MsBytes(<<65>>))
    /\ system_payload.keys["memory_stream"] = Present(MsBytes(<<>>))
    /\ memory_stream = MsNone

IsBytesLike(ms) == ms.t \in {"bytes", "bytearray"}

IsBase64(ms) == ms.t = "str" /\ B64Decode(ms.v).ok

\* C5: bytes valid in the requested encoding decode to their text, strict
\* base64 text to the text of the decoded bytes, and any other value that
\* JSON can serialise to its JSON text with non-ASCII characters kept.
C5_ExpectedString ==
    (HasRun("decode") /\ args.encoding \in KnownEncodings) =>
        /\ (IsBytesLike(memory_stream)
              /\ BytesDecode(memory_stream.v, args.encoding).ok)
           => ( /\ decoded.ok
                /\ decoded.v = BytesDecode(memory_stream.v, args.encoding).v )
        /\ (IsBase64(memory_stream)
              /\ BytesDecode(B64Decode(memory_stream.v).v, args.encoding).ok)
           => ( /\ decoded.ok
                /\ decoded.v = BytesDecode(B64Decode(memory_stream.v).v,
                                           args.encoding).v )
        /\ memory_stream.t = "json"
           => (decoded.ok /\ decoded.v = JsonDumps(memory_stream.j))

\* C6: the only recovery is the encoding fallback: bytes, or the bytes of
\* base64 text, that do not decode in the requested known encoding come out
\* as their UTF-8 decoding with replacement characters, so such input never
\* fails; the fallback is taken at most once, only in the decoding stage, no
\* stage runs twice and a failure ends the run.
C6_SingleFallback ==
    /\ fallbacks <= 1
    /\ fallbacks = 1 => (HasRun("decode") /\ decoded.ok)
    /\ \A i \in DOMAIN log, j \in DOMAIN log : log[i] = log[j] => i = j
    /\ stderr.kind # "none" => pc = "exited"
    /\ ( /\ HasRun("decode")
         /\ IsBytesLike(memory_stream) \/ IsBase64(memory_stream)
         /\ args.encoding \in KnownEncodings )
       => LET raw == IF IsBytesLike(memory_stream) THEN memory_stream.v
                     ELSE B64Decode(memory_stream.v).v
              d == BytesDecode(raw, args.encoding)
          IN  /\ decoded.ok
              /\ d.ok => (decoded.v = d.v /\ fallbacks = 0)
              /\ ~d.ok => (decoded.v = Utf8DecodeReplace(raw) /\ fallbacks = 1)

C6_Witness ==
    /\ pc = "exited"
    /\ exit_code = 0
    /\ IsBase64(memory_stream)
    /\ fallbacks = 1
    /\ stdout = <<<<REPLACEMENT>>>>

\* The value a flag was handed to the client as, None when it was not.
ConfiguredBaseUrl ==
    IF client.kind = "GalacticConsoleClient" THEN client.kwargs.base_url
    ELSE IF client.kind \in Range(ApiNames) \cup {"ApiClient"}
         THEN Some(client.configuration.host)
    ELSE None

ConfiguredApiKey ==
    IF client.kind = "GalacticConsoleClient" THEN client.kwargs.api_key
    ELSE IF client.kind \in Range(ApiNames) \cup {"ApiClient"}
            /\ client.configuration.has_api_key
         THEN client.configuration.api_key
    ELSE None

\* C7: a non-empty --base-url or --api-key is configured on the client on
\* which getSystem is invoked, in every constructor pattern, the module used
\* as the client included.
C7_FlagsConfigured ==
    calls # <<>> =>
        /\ Truthy(args.base_url) => ConfiguredBaseUrl = args.base_url
        /\ Truthy(args.api_key) => ConfiguredApiKey = args.api_key

IsPrefix(s, u) == Len(s) <= Len(u) /\ \A i \in DOMAIN s : s[i] = u[i]

\* C8: the stages run in the order import, create, call, extract, decode,
\* print, each only after the one before succeeded; nothing runs after a
\* failure; the decoded text is printed exactly once, last, before the run
\* returns 0.
C8_StageOrder ==
    /\ IsPrefix(log, Stages)
    /\ pc # "exited" =>
          /\ pc = IF Len(log) = Len(Stages) THEN "return" ELSE Stages[Len(log) + 1]
          /\ stderr.kind = "none"
    /\ imported = "ImportError" =>
          (log = <<"import">> /\ client = NoClient /\ calls = <<>>)
    /\ (pc = "exited" /\ log = <<"import", "create">>) => calls = <<>>
    /\ stderr.kind # "none" => (stdout = <<>> /\ ~HasRun("print"))
    /\ (HasRun("extract") /\ NoMemoryStream) => (~HasRun("decode") /\ stdout = <<>>)
    /\ (HasRun("decode") /\ ~decoded.ok) => (~HasRun("print") /\ stdout = <<>>)
    /\ HasRun("print") <=> stdout # <<>>
    /\ stdout # <<>> => (stdout = <<decoded.v>> /\ decoded.ok)
    /\ exit_code = 0 => (log = Stages /\ Len(stdout) = 1)

C8_Witness ==
    /\ pc = "exited"
    /\ exit_code = 0
    /\ log = Stages
    /\ stdout = <<decoded.v>>
    /\ calls # <<>>

\* C9: at most one method is invoked, once; when it raises or returns None
\* the run ends without another candidate or another call.
C9_SingleCall ==
    /\ Len(calls) <= 1
    /\ HasRun("call") => ((Len(calls) = 1) <=> ~NoCallable)
    /\ calls # <<>> => MethodAttr(client, calls[1][1], calls[1][2]) = "callable"
    /\ (pc = "exited" /\ log = <<"import", "create", "call">> /\ ~NoCallable)
          => (Len(calls) = 1 /\ stderr.kind = "traceback")
    /\ (HasRun("extract") /\ system_payload.kind = "None")
          => ( /\ pc = "exited"
               /\ Len(calls) = 1
               /\ log = <<"import", "create", "call", "extract">>
               /\ stderr.text = MsgNoData )

C9_Witness ==
    /\ pc = "exited"
    /\ HasRun("extract")
    /\ system_payload.kind = "None"
    /\ CallableAt(1, 2)
    /\ CallableAt(2, 1)
    /\ calls = << <<1, "get_system">> >>

\* C10: a string that the strict base64 check rejects and that the
\* requested encoding can encode comes back unchanged; a string the check
\* accepts is base64-decoded: the result is the text of the decoded bytes,
\* not the string.
C10_TextRoundTrip ==
    (HasRun("decode") /\ memory_stream.t = "str") =>
        /\ (~B64Decode(memory_stream.v).ok
              /\ \A i \in DOMAIN memory_stream.v :
                    CharEncodable(memory_stream.v[i], args.encoding))
           => (decoded.ok /\ decoded.v = memory_stream.v /\ ~decoded.fallback)
        /\ (B64Decode(memory_stream.v).ok /\ args.encoding \in KnownEncodings)
           => LET raw == B64Decode(memory_stream.v).v
                  d == BytesDecode(raw, args.encoding)
              IN  /\ decoded.ok
                  /\ decoded.v = IF d.ok THEN d.v ELSE Utf8DecodeReplace(raw)

C10_Witness ==
    /\ pc = "exited"
    /\ exit_code = 0
    /\ args.encoding = "utf-8"
    /\ memory_stream = MsStr(<<81, 233, 61>>)
    /\ stdout = <<<<81, 233, 61>>>>

=============================================================================
